---- MODULE Spec2Model ----
(***************************************************************************)
(* Verification model of django-mcp: the process-wide FastMCP singleton   *)
(* of server.py with its lock, and the callers of get_mcp_server.         *)
(***************************************************************************)
EXTENDS Integers, Sequences, FiniteSets, TLC

\* ------------------------------------------------------------------ bounds
NumThreads == 2
MaxCalls == 3

Threads == 1..NumThreads

\* ------------------------------------------------------------------ values
\* Python's None for a str | None value.
NoName == "None"
\* Python's None for the FastMCP | None reference.
NoneVal == [id |-> 0, name |-> NoName]
\* name arguments a caller passes to get_mcp_server
ArgNames == {NoName, "Configured Server"}
\* (settings.DJANGO_MCP_SERVER_NAME, "pytest" in sys.modules); an absent setting
\* is None, and pytest is only looked at when it is
Environments ==
    {<<"Settings Server", FALSE>>, <<NoName, TRUE>>, <<NoName, FALSE>>}
\* settings.DJANGO_MCP_URL_PREFIX when the setting is absent
NoPrefix == [given |-> FALSE, value |-> <<>>]
\* asgi.py: no application made yet, and no request served yet
NoApp == [made |-> FALSE, prefix |-> <<>>, sse |-> "none"]
NoRequest == [served |-> FALSE, has_path |-> FALSE, path |-> <<>>, receive |-> "none",
              send |-> "none", forwards |-> <<>>]
\* a call of the sequential specification: the function, the singleton before
\* it, whether it returned or raised (and what), the tools and resources it
\* registered in order, the server methods it called, its input and its result
Call(f, pre, out, exc, reg, res, called, input, result) ==
    [op |-> f, pre |-> pre, out |-> out, exc |-> exc, reg |-> reg, res |-> res,
     called |-> called, input |-> input, result |-> result]
NoCall == Call("none", [id |-> 0, name |-> "None"], "none", "none", <<>>, <<>>, <<>>,
               [kind |-> "none"], [kind |-> "none"])
\* inspection.py: no match_resource_uri call made yet
NoMatch == [registry |-> <<>>, done |-> FALSE, uri |-> <<>>, result |-> 0]
NoResp == [kind |-> "none", status |-> 0, body |-> "", server_name |-> NoName]
\* a JsonResponse, and an exception that leaves a view instead of one
Response(status, body, sname) ==
    [kind |-> "response", status |-> status, body |-> body, server_name |-> sname]
Propagated == [kind |-> "exception", status |-> 0, body |-> "", server_name |-> NoName]

VARIABLES
    mcp_server,      \* server.py: _mcp_server
    lock,            \* server.py: _mcp_server_lock, 0 when free, else the holder
    nextId,          \* identity of the next FastMCP object the constructor makes
    setting_name,    \* settings.DJANGO_MCP_SERVER_NAME
    pytest,          \* "pytest" in sys.modules
    th,              \* per thread: its position, locals and the record of its call
    calls,           \* calls started so far
    ctorCalls,       \* FastMCP constructor calls begun
    resetCalled,     \* whether reset_mcp_server has been called
    resetDone,       \* whether a reset_mcp_server call has completed
    setting_prefix,  \* settings.DJANGO_MCP_URL_PREFIX
    asgi_app,        \* asgi.py: the application get_asgi_application returned
    request,         \* asgi.py: the last request and the calls it was forwarded with
    tools,           \* the tools registered on FastMCP servers
    resources,       \* the resources registered on FastMCP servers
    last,            \* the last sequential call: its input and how it ended
    ops,             \* sequential calls made so far
    drf_available,   \* drf_tools.py: DRF_AVAILABLE
    matched          \* inspection.py: the last match_resource_uri call

\* th[t] has the fields
\*   pc          the source line the thread is about to run
\*   op          the function it was called for
\*   name        the name argument of get_mcp_server
\*   gout        how its get_mcp_server call ended
\*   ret         the value its get_mcp_server call returned
\*   resp        the response of the view it ran
\*   startSrv    _mcp_server when its call began
\*   startNext   nextId when its call began
\*   afterReset  whether a reset had completed when its call began
\*   resetDuring whether a reset assigned _mcp_server during its call
\*   built       whether its call ran the constructor to the end
\*   viewRaised  whether building the view's response raised
Idle ==
    [pc |-> "idle", op |-> "none", name |-> NoName, gout |-> "none", ret |-> NoneVal,
     resp |-> NoResp, startSrv |-> NoneVal, startNext |-> 1, afterReset |-> FALSE,
     resetDuring |-> FALSE, built |-> FALSE, viewRaised |-> FALSE]

vars == <<mcp_server, lock, nextId, setting_name, pytest, th, calls, ctorCalls,
          resetCalled, resetDone, setting_prefix, asgi_app, request, tools,
          resources, last, ops, drf_available, matched>>

\* the environment the process runs in; no action writes it
envVars == <<setting_name, pytest, setting_prefix, drf_available>>
\* the state of the threads of the concurrent specification
threadVars == <<lock, th, calls, ctorCalls, resetCalled, resetDone>>
\* the state of the ASGI application
asgiVars == <<asgi_app, request>>
\* the state of the sequential callers of the singleton
apiVars == <<tools, resources, last, ops>>
\* the state of the callers of the inspection module
inspectVars == <<matched>>

\* the process after the modules are imported: nothing constructed, nothing
\* registered, no call made
InitProcess ==
    /\ mcp_server = NoneVal
    /\ lock = 0
    /\ nextId = 1
    /\ th = [t \in Threads |-> Idle]
    /\ calls = 0
    /\ ctorCalls = 0
    /\ resetCalled = FALSE
    /\ resetDone = FALSE
    /\ asgi_app = NoApp
    /\ request = NoRequest
    /\ tools = {}
    /\ resources = {}
    /\ last = NoCall
    /\ ops = 0
    /\ matched = NoMatch

Init ==
    /\ InitProcess
    /\ \E e \in Environments : setting_name = e[1] /\ pytest = e[2]
    /\ setting_prefix = NoPrefix
    /\ drf_available = TRUE

\* ------------------------------------------------------- get_mcp_server
\* server.py 52-57: the name the constructor is given.
ResolveName(n) ==
    IF n # NoName THEN n
    ELSE IF setting_name # NoName THEN setting_name
    ELSE IF pytest THEN "Test MCP Server"
    ELSE NoName

\* thread t moves to `line`
Goto(t, line) == th' = [th EXCEPT ![t].pc = line]

\* A thread begins a call of function f with name argument n, at `line`.
Begin(t, f, n, line, r) ==
    /\ th[t].pc = "idle"
    /\ calls < MaxCalls
    /\ calls' = calls + 1
    /\ th' = [th EXCEPT ![t] =
                [pc |-> line, op |-> f, name |-> n, gout |-> "none", ret |-> NoneVal,
                 resp |-> r, startSrv |-> mcp_server, startNext |-> nextId,
                 afterReset |-> resetDone, resetDuring |-> FALSE, built |-> FALSE,
                 viewRaised |-> FALSE]]

\* where control goes when get_mcp_server ends in thread t
AfterGet(t) == IF th[t].op = "mcp_health_view" THEN "L149" ELSE "idle"

\* get_mcp_server returns v to its caller.
Return(t, v) ==
    th' = [th EXCEPT ![t].gout = "returned", ![t].ret = v, ![t].pc = AfterGet(t)]

CallGetMcpServer(t) ==
    /\ \E n \in ArgNames : Begin(t, "get_mcp_server", n, "L42", NoResp)
    /\ UNCHANGED <<asgiVars, apiVars, inspectVars, mcp_server, lock, nextId, envVars, ctorCalls, resetCalled, resetDone>>

\* the test `_mcp_server is not None` of lines 42 and 48
IsConstructed_ArgsRebuild(t) == mcp_server # NoneVal /\ th[t].name = NoName
IsConstructed(t) == mcp_server # NoneVal

\* line 42: if _mcp_server is not None
L42(t) ==
    /\ th[t].pc = "L42"
    /\ Goto(t, IF IsConstructed(t) THEN "L43" ELSE "L46")
    /\ UNCHANGED <<asgiVars, apiVars, inspectVars, mcp_server, lock, nextId, envVars, calls, ctorCalls, resetCalled,
                   resetDone>>

\* line 43: return _mcp_server (a second read of the global)
L43(t) ==
    /\ th[t].pc = "L43"
    /\ Return(t, mcp_server)
    /\ UNCHANGED <<asgiVars, apiVars, inspectVars, mcp_server, lock, nextId, envVars, calls, ctorCalls, resetCalled,
                   resetDone>>

\* line 46: with _mcp_server_lock (acquire)
L46(t) ==
    /\ th[t].pc = "L46"
    /\ lock = 0
    /\ lock' = t
    /\ Goto(t, "L48")
    /\ UNCHANGED <<asgiVars, apiVars, inspectVars, mcp_server, nextId, envVars, calls, ctorCalls, resetCalled, resetDone>>

\* line 48: the re-check under the lock
L48_NoRecheck(t) ==
    /\ th[t].pc = "L48"
    /\ Goto(t, "L68")
    /\ UNCHANGED <<asgiVars, apiVars, inspectVars, mcp_server, lock, nextId, envVars, calls, ctorCalls, resetCalled,
                   resetDone>>
L48(t) ==
    /\ th[t].pc = "L48"
    /\ Goto(t, IF IsConstructed(t) THEN "L49" ELSE "L68")
    /\ UNCHANGED <<asgiVars, apiVars, inspectVars, mcp_server, lock, nextId, envVars, calls, ctorCalls, resetCalled,
                   resetDone>>

\* line 49: return _mcp_server inside the with block; leaving it releases the lock
L49_KeepsLock(t) ==
    /\ th[t].pc = "L49"
    /\ Return(t, mcp_server)
    /\ UNCHANGED <<asgiVars, apiVars, inspectVars, mcp_server, lock, nextId, envVars, calls,
                   ctorCalls, resetCalled, resetDone>>
L49(t) ==
    /\ th[t].pc = "L49"
    /\ Return(t, mcp_server)
    /\ lock' = 0
    /\ UNCHANGED <<asgiVars, apiVars, inspectVars, mcp_server, nextId, envVars, calls, ctorCalls, resetCalled, resetDone>>

\* lines 52-73, the constructor returns: _mcp_server = FastMCP(name=..., ...)
L68_Construct(t) ==
    /\ th[t].pc = "L68"
    /\ ctorCalls' = ctorCalls + 1
    /\ mcp_server' = [id |-> nextId, name |-> ResolveName(th[t].name)]
    /\ nextId' = nextId + 1
    /\ th' = [th EXCEPT ![t].built = TRUE, ![t].pc = "L74"]
    /\ UNCHANGED <<asgiVars, apiVars, inspectVars, lock, envVars, calls, resetCalled, resetDone>>

\* lines 52-73, the constructor raises: the exception leaves the with block,
\* which releases the lock, and reaches the caller; _mcp_server is not assigned
L68_Raise_KeepsLock(t) ==
    /\ th[t].pc = "L68"
    /\ ctorCalls' = ctorCalls + 1
    /\ th' = [th EXCEPT ![t].gout = "raised", ![t].pc = AfterGet(t)]
    /\ UNCHANGED <<asgiVars, apiVars, inspectVars, mcp_server, lock, nextId, envVars, calls,
                   resetCalled, resetDone>>
L68_Raise(t) ==
    /\ th[t].pc = "L68"
    /\ ctorCalls' = ctorCalls + 1
    /\ lock' = 0
    /\ th' = [th EXCEPT ![t].gout = "raised", ![t].pc = AfterGet(t)]
    /\ UNCHANGED <<asgiVars, apiVars, inspectVars, mcp_server, nextId, envVars, calls, resetCalled, resetDone>>

\* the end of the with block of line 46 (release)
L74(t) ==
    /\ th[t].pc = "L74"
    /\ lock' = 0
    /\ Goto(t, "L75")
    /\ UNCHANGED <<asgiVars, apiVars, inspectVars, mcp_server, nextId, envVars, calls, ctorCalls, resetCalled, resetDone>>

\* line 75: return _mcp_server (a read of the global after the release)
L75(t) ==
    /\ th[t].pc = "L75"
    /\ Return(t, mcp_server)
    /\ UNCHANGED <<asgiVars, apiVars, inspectVars, mcp_server, lock, nextId, envVars, calls, ctorCalls, resetCalled,
                   resetDone>>

\* ------------------------------------------------------ reset_mcp_server
CallResetMcpServer(t) ==
    /\ Begin(t, "reset_mcp_server", NoName, "L104", NoResp)
    /\ resetCalled' = TRUE
    /\ UNCHANGED <<asgiVars, apiVars, inspectVars, mcp_server, lock, nextId, envVars, ctorCalls, resetDone>>

\* line 104: with _mcp_server_lock (acquire)
L104(t) ==
    /\ th[t].pc = "L104"
    /\ lock = 0
    /\ lock' = t
    /\ Goto(t, "L105")
    /\ UNCHANGED <<asgiVars, apiVars, inspectVars, mcp_server, nextId, envVars, calls, ctorCalls, resetCalled, resetDone>>

\* line 105: _mcp_server = None
L105(t) ==
    /\ th[t].pc = "L105"
    /\ mcp_server' = NoneVal
    /\ th' = [u \in Threads |->
                IF u = t THEN [th[u] EXCEPT !.pc = "L106"]
                ELSE IF th[u].pc # "idle" THEN [th[u] EXCEPT !.resetDuring = TRUE]
                ELSE th[u]]
    /\ UNCHANGED <<asgiVars, apiVars, inspectVars, lock, nextId, envVars, calls, ctorCalls, resetCalled, resetDone>>

\* the end of the with block of line 104 (release); the function returns
L106(t) ==
    /\ th[t].pc = "L106"
    /\ lock' = 0
    /\ resetDone' = TRUE
    /\ Goto(t, "idle")
    /\ UNCHANGED <<asgiVars, apiVars, inspectVars, mcp_server, nextId, envVars, calls, ctorCalls, resetCalled>>

\* ------------------------------------------------------- mcp_health_view
\* views.py 147-161: the response for the outcome g of get_mcp_server, its
\* value v, and whether building the JsonResponse of lines 152-159 raises
HealthResponse_NarrowExcept(g, v, buildRaises) ==
    IF g = "raised" THEN Propagated
    ELSE IF v = NoneVal THEN Response(500, "error", NoName)
    ELSE IF buildRaises THEN Response(500, "error", NoName)
    ELSE Response(200, "ok", v.name)
HealthResponse(g, v, buildRaises) ==
    IF g = "raised" THEN Response(500, "error", NoName)
    ELSE IF v = NoneVal THEN Response(500, "error", NoName)
    ELSE IF buildRaises THEN Response(500, "error", NoName)
    ELSE Response(200, "ok", v.name)

\* views.py 136: require_http_methods(["GET"]) answers 405 without calling the view.
\* The view reaches the singleton only through get_mcp_server, which every
\* thread runs; one thread, the first, serves the requests.
CallHealthView(t) ==
    /\ t = 1
    /\ \E method \in {"GET", "POST"} :
          IF method = "GET"
          THEN Begin(t, "mcp_health_view", NoName, "L42", NoResp)
          ELSE Begin(t, "mcp_health_view", NoName, "idle",
                     Response(405, "method not allowed", NoName))
    /\ UNCHANGED <<asgiVars, apiVars, inspectVars, mcp_server, lock, nextId, envVars, ctorCalls, resetCalled, resetDone>>

\* views.py 149-161: the rest of the view once get_mcp_server has ended
L149(t) ==
    /\ th[t].pc = "L149"
    /\ \E buildRaises \in BOOLEAN :
          th' = [th EXCEPT ![t].resp = HealthResponse(th[t].gout, th[t].ret, buildRaises),
                           ![t].viewRaised = buildRaises,
                           ![t].pc = "idle"]
    /\ UNCHANGED <<asgiVars, apiVars, inspectVars, mcp_server, lock, nextId, envVars, calls, ctorCalls, resetCalled,
                   resetDone>>

Next ==
    \E t \in Threads :
        \/ CallGetMcpServer(t)
        \/ L42(t)
        \/ L43(t)
        \/ L46(t)
        \/ L48(t)
        \/ L49(t)
        \/ L68_Construct(t)
        \/ L68_Raise(t)
        \/ L74(t)
        \/ L75(t)
        \/ CallResetMcpServer(t)
        \/ L104(t)
        \/ L105(t)
        \/ L106(t)
        \/ CallHealthView(t)
        \/ L149(t)

Spec == Init /\ [][Next]_vars

\* a step of a call thread t is inside of: the interpreter runs every thread
\* that can run (it switches threads at the switch interval), a thread waiting
\* for the lock can run once the lock is free, and the constructor ends
Step(t) ==
    \/ L42(t)
    \/ L43(t)
    \/ L46(t)
    \/ L48(t)
    \/ L49(t)
    \/ L68_Construct(t)
    \/ L68_Raise(t)
    \/ L74(t)
    \/ L75(t)
    \/ L104(t)
    \/ L105(t)
    \/ L106(t)

\* the threads call get_mcp_server and reset_mcp_server in a process whose
\* settings name the server
InitFair ==
    /\ InitProcess
    /\ setting_name = "Settings Server"
    /\ pytest = FALSE
    /\ setting_prefix = NoPrefix
    /\ drf_available = TRUE

NextFair == \E t \in Threads : CallGetMcpServer(t) \/ CallResetMcpServer(t) \/ Step(t)

SpecFair == InitFair /\ [][NextFair]_vars /\ \A t \in Threads : WF_vars(Step(t))

\* ------------------------------------------- get_mcp_server, one caller
\* server.py 39-75 run by one caller with no other thread: the outcome, the value
\* returned, and the singleton and the next object identity it leaves behind.
\* ctorRaises says whether the FastMCP constructor raises if it is run.
get_mcp_server(n, ctorRaises) ==
    IF mcp_server # NoneVal
    THEN [out |-> "returned", val |-> mcp_server, srv |-> mcp_server, nid |-> nextId]
    ELSE IF ctorRaises
    THEN [out |-> "raised", val |-> NoneVal, srv |-> NoneVal, nid |-> nextId]
    ELSE LET made == [id |-> nextId, name |-> ResolveName(n)]
         IN [out |-> "returned", val |-> made, srv |-> made, nid |-> nextId + 1]

\* ----------------------------------------------------------------- asgi
MaxPathLen == 5
\* the characters paths and prefixes are made of
Chars == {"/", "m", "c", "p"}
\* strings of at most n characters
Strings(n) == UNION {[1..k -> Chars] : k \in 0..n}
\* values of settings.DJANGO_MCP_URL_PREFIX
PrefixSettings ==
    {NoPrefix, [given |-> TRUE, value |-> <<>>], [given |-> TRUE, value |-> <<"p">>],
     [given |-> TRUE, value |-> <<"m", "c">>]}
\* the exceptions the FastMCP constructor raises
CtorErrors == {"ValueError", "TypeError"}

\* str.startswith
StartsWith_Equal(str, prefix) == str = prefix
StartsWith(str, prefix) ==
    /\ Len(prefix) <= Len(str)
    /\ SubSeq(str, 1, Len(prefix)) = prefix

\* asgi.py 33: getattr(settings, "DJANGO_MCP_URL_PREFIX", "mcp")
McpPrefix == IF setting_prefix.given THEN setting_prefix.value ELSE <<"m", "c", "p">>

\* asgi.py 46-53: the calls the application makes for a request
Forwards(app, has_path, path, receive, send) ==
    LET p == IF has_path THEN path ELSE <<>>
        scope == [has_path |-> has_path, path |-> path]
    IN IF StartsWith(p, <<"/">> \o app.prefix)
       THEN <<[app |-> "mcp_sse_app", scope |-> scope, receive |-> receive, send |-> send]>>
       ELSE <<[app |-> "django_application", scope |-> scope, receive |-> receive,
               send |-> send]>>

\* asgi.py 13-33 with server.py 78-94 (get_sse_app): the application is made
\* unless get_mcp_server raises; a ValueError under pytest yields the stub app
GetAsgiApplication ==
    /\ ~asgi_app.made
    /\ \E ctorRaises \in BOOLEAN, err \in CtorErrors :
          LET g == get_mcp_server(NoName, ctorRaises)
          IN /\ mcp_server' = g.srv
             /\ nextId' = g.nid
             /\ asgi_app' =
                  IF g.out = "returned"
                  THEN [made |-> TRUE, prefix |-> McpPrefix, sse |-> "sse_app"]
                  ELSE IF err = "ValueError" /\ pytest
                  THEN [made |-> TRUE, prefix |-> McpPrefix, sse |-> "pytest_stub"]
                  ELSE asgi_app
    /\ UNCHANGED <<threadVars, envVars, apiVars, inspectVars, request>>

\* asgi.py 35-53: application(scope, receive, send)
Application ==
    /\ asgi_app.made
    /\ ~request.served
    /\ \E has_path \in BOOLEAN, path \in Strings(MaxPathLen),
          receive \in {"receive1", "receive2"}, send \in {"send1", "send2"} :
          /\ has_path \/ path = <<>>
          /\ request' = [served |-> TRUE, has_path |-> has_path, path |-> path,
                         receive |-> receive, send |-> send,
                         forwards |-> Forwards(asgi_app, has_path, path, receive, send)]
    /\ UNCHANGED <<mcp_server, nextId, threadVars, envVars, apiVars, inspectVars, asgi_app>>

InitAsgi ==
    /\ InitProcess
    /\ \E e \in Environments : setting_name = e[1] /\ pytest = e[2]
    /\ setting_prefix \in PrefixSettings
    /\ drf_available = TRUE

NextAsgi ==
    \/ GetAsgiApplication
    \/ Application

SpecAsgi == InitAsgi /\ [][NextAsgi]_vars

\* ------------------------------------------------------ FastMCP registries
MaxOps == 2

\* the Django models of the host project; they belong to one app
Models == {"author", "book"}
get_app_label(model) == "library"
get_model_name(model) == model
\* Meta.verbose_name, as the words and spaces it is made of
get_verbose_name(model) == IF model = "author" THEN <<"guest", " ", "author">> ELSE <<model>>

\* a handler closure: the function defined, the model it closes over, and the
\* other value it closes over (an action, a lookup field)
Fn(kind, model, arg) == [kind |-> kind, model |-> model, arg |-> arg]
\* one use of a registering decorator: the name or URI it registers under
Reg(name, fn) == [name |-> name, fn |-> fn]

\* mcp_server.tool(...)(fn) on server srv: the tool is registered under the
\* name the decorator is given, else the name the function has when it is
\* decorated; a name the server already has keeps its first tool
AddTool(registry, srv, r) ==
    IF \E e \in registry : e.srv = srv.id /\ e.name = r.name
    THEN registry
    ELSE registry \cup {[srv |-> srv.id, name |-> r.name, fn |-> r.fn]}
\* the decorators of a registration function, in the order it applies them
RECURSIVE AddTools(_, _, _)
AddTools(registry, srv, rs) ==
    IF rs = <<>> THEN registry
    ELSE AddTools(AddTool(registry, srv, Head(rs)), srv, Tail(rs))
\* mcp_server.resource(uri)(fn) on server srv: a URI with a {parameter} is a
\* template and replaces the template registered under it, a URI without one
\* is a resource and the first one registered under it stays
AddResource(registry, srv, r, isTemplate) ==
    LET same == {e \in registry : e.srv = srv.id /\ e.name = r.name}
        new == [srv |-> srv.id, name |-> r.name, fn |-> r.fn]
    IN IF same = {} THEN registry \cup {new}
       ELSE IF isTemplate THEN (registry \ same) \cup {new}
       ELSE registry
\* RegNames(<<r1, r2>>) = <<r1.name, r2.name>>
RegNames(rs) == [i \in 1..Len(rs) |-> rs[i].name]

\* the constructor's outcome is an input only of a call that runs it
RunsCtor(ctorRaises) == ctorRaises => mcp_server = NoneVal

\* a call of the sequential specification is made and recorded
Record(c) ==
    /\ ops < MaxOps
    /\ ops' = ops + 1
    /\ last' = c
    /\ UNCHANGED <<threadVars, envVars, asgiVars, inspectVars>>

\* ------------------------------------------------------------ model_tools
\* an absent list argument, and the include and exclude arguments callers pass
NoList == [given |-> FALSE, items |-> {}]
List(items) == [given |-> TRUE, items |-> items]
IncludeArgs == {NoList, List({}), List({"get", "create"}), List({"list", "delete"})}
ExcludeArgs == {NoList, List({"get"}), List({"search", "create", "delete"})}
PrefixArgs == {NoName, "lib"}

\* model_tools.py 55-62
all_tools == <<"get", "list", "search", "create">>
ToolsToRegister_IgnoreExclude(include, exclude) ==
    LET Included(t) == ~include.given \/ t \in include.items
    IN SelectSeq(all_tools, Included)
ToolsToRegister(include, exclude) ==
    LET Included(t) == ~include.given \/ t \in include.items
        Kept(t) == ~exclude.given \/ t \notin exclude.items
    IN SelectSeq(SelectSeq(all_tools, Included), Kept)

\* model_tools.py 90-91, 120-121, 148-149, 197-198: the function each
\* register_model_*_tool decorates, under the name it has at that point
ModelToolFn(t) ==
    CASE t = "get" -> "get_model_instance"
      [] t = "list" -> "list_model_instances"
      [] t = "search" -> "search_model_instances"
      [] t = "create" -> "create_model_instance"
ModelToolRegs(model, ts) ==
    [i \in 1..Len(ts) |-> Reg(<<ModelToolFn(ts[i])>>, Fn(ModelToolFn(ts[i]), model, "none"))]

\* model_tools.py 24-75 with 78-221
register_model_tools ==
    \E model \in Models, prefix \in PrefixArgs, include \in IncludeArgs,
       exclude \in ExcludeArgs, ctorRaises \in BOOLEAN :
        LET g == get_mcp_server(NoName, ctorRaises)
            regs == IF g.out = "raised" THEN <<>>
                    ELSE ModelToolRegs(model, ToolsToRegister(include, exclude))
        IN /\ RunsCtor(ctorRaises)
           /\ mcp_server' = g.srv
           /\ nextId' = g.nid
           /\ tools' = AddTools(tools, g.srv, regs)
           /\ UNCHANGED resources
           /\ Record(Call("register_model_tools", mcp_server, "returned", "none",
                          RegNames(regs), <<>>, <<>>,
                          [model |-> model, prefix |-> prefix, include |-> include,
                           exclude |-> exclude],
                          [kind |-> "none"]))

\* model_tools.py 174-221, called on its own
register_model_create_tool_NoTry ==
    \E model \in Models, prefix \in PrefixArgs, ctorRaises \in BOOLEAN :
        LET g == get_mcp_server(NoName, ctorRaises)
            regs == IF g.out = "raised" THEN <<>>
                    ELSE ModelToolRegs(model, <<"create">>)
        IN /\ RunsCtor(ctorRaises)
           /\ mcp_server' = g.srv
           /\ nextId' = g.nid
           /\ tools' = AddTools(tools, g.srv, regs)
           /\ UNCHANGED resources
           /\ Record(Call("register_model_create_tool", mcp_server, g.out,
                          IF g.out = "raised" THEN "ValueError" ELSE "none",
                          RegNames(regs), <<>>, <<>>,
                          [model |-> model, prefix |-> prefix],
                          [kind |-> "none"]))
register_model_create_tool ==
    \E model \in Models, prefix \in PrefixArgs, ctorRaises \in BOOLEAN :
        LET g == get_mcp_server(NoName, ctorRaises)
            regs == IF g.out = "raised" THEN <<>>
                    ELSE ModelToolRegs(model, <<"create">>)
        IN /\ RunsCtor(ctorRaises)
           /\ mcp_server' = g.srv
           /\ nextId' = g.nid
           /\ tools' = AddTools(tools, g.srv, regs)
           /\ UNCHANGED resources
           /\ Record(Call("register_model_create_tool", mcp_server, "returned", "none",
                          RegNames(regs), <<>>, <<>>,
                          [model |-> model, prefix |-> prefix],
                          [kind |-> "none"]))

\* the lookup arguments callers pass; the handler's parameter is named pk
LookupArgs == {"pk", "slug"}

\* model_tools.py 224-289: FastMCP may reject a template whose parameter is not
\* a parameter of the function, with a ValueError the function lets through
register_model_resource ==
    \E model \in Models, lookup \in LookupArgs, ctorRaises \in BOOLEAN,
       accepted \in BOOLEAN :
        /\ RunsCtor(ctorRaises)
        /\ lookup = "pk" => accepted
        /\ LET g == get_mcp_server(NoName, ctorRaises)
               r == Reg(<<get_app_label(model), "://", "{", lookup, "}">>,
                        Fn("get_model_resource", model, lookup))
               tried == g.out = "returned"
           IN /\ mcp_server' = g.srv
              /\ nextId' = g.nid
              /\ resources' = IF tried /\ accepted
                              THEN AddResource(resources, g.srv, r, TRUE)
                              ELSE resources
              /\ UNCHANGED tools
              /\ Record(Call("register_model_resource", mcp_server,
                             IF tried /\ ~accepted THEN "raised" ELSE "returned",
                             IF tried /\ ~accepted THEN "ValueError" ELSE "none",
                             <<>>, IF tried THEN <<r.name>> ELSE <<>>, <<>>,
                             [model |-> model, lookup |-> lookup],
                             [kind |-> "none"]))

\* ------------------------------------------------------------ admin_tools
\* an entry of ModelAdmin.actions or of exclude_actions: a function, or the
\* name of one as a str
Function(name) == [kind |-> "function", name |-> name]
Str(name) == [kind |-> "str", name |-> name]
\* the actions attribute of the admin classes of the host project
ActionLists ==
    {<<>>, <<Function("publish"), Function("archive")>>,
     <<Function("publish"), Str("archive")>>}
ExcludeActionArgs == {NoList, List({Str("publish")}), List({Function("publish")})}

\* admin_tools.py 52-68 with 71-109: the decorators applied for the actions in
\* order, up to the first action that has no __name__ (a str), where line 57
\* raises AttributeError
RECURSIVE AdminActionRegs(_, _, _)
AdminActionRegs(model, actions, exclude_actions) ==
    IF actions = <<>> THEN [regs |-> <<>>, out |-> "returned"]
    ELSE IF Head(actions) \in exclude_actions.items
    THEN AdminActionRegs(model, Tail(actions), exclude_actions)
    ELSE IF Head(actions).kind = "str"
    THEN [regs |-> <<>>, out |-> "raised"]
    ELSE LET rest == AdminActionRegs(model, Tail(actions), exclude_actions)
         IN [regs |-> <<Reg(<<"admin_action_tool">>,
                            Fn("admin_action_tool", model, Head(actions).name))>>
                      \o rest.regs,
             out |-> rest.out]

\* admin_tools.py 23-68
register_admin_tools ==
    \E model \in Models, actions \in ActionLists, exclude_actions \in ExcludeActionArgs,
       ctorRaises \in BOOLEAN :
        LET g == get_mcp_server(NoName, ctorRaises)
            a == IF g.out = "raised" THEN [regs |-> <<>>, out |-> "returned"]
                 ELSE AdminActionRegs(model, actions, exclude_actions)
        IN /\ RunsCtor(ctorRaises)
           /\ mcp_server' = g.srv
           /\ nextId' = g.nid
           /\ tools' = AddTools(tools, g.srv, a.regs)
           /\ UNCHANGED resources
           /\ Record(Call("register_admin_tools", mcp_server, a.out,
                          IF a.out = "raised" THEN "AttributeError" ELSE "none",
                          RegNames(a.regs), <<>>, <<>>,
                          [model |-> model, actions |-> actions,
                           exclude_actions |-> exclude_actions],
                          [kind |-> "none"]))

\* admin_tools.py 112-189
register_admin_site ==
    \E ctorRaises \in BOOLEAN :
        LET g == get_mcp_server(NoName, ctorRaises)
            t == Reg(<<"admin_models">>, Fn("admin_models", "none", "none"))
            r == Reg(<<"admin://models">>, Fn("admin_models_resource", "none", "none"))
            tried == g.out = "returned"
        IN /\ RunsCtor(ctorRaises)
           /\ mcp_server' = g.srv
           /\ nextId' = g.nid
           /\ tools' = IF tried THEN AddTool(tools, g.srv, t) ELSE tools
           /\ resources' = IF tried THEN AddResource(resources, g.srv, r, FALSE)
                           ELSE resources
           /\ Record(Call("register_admin_site", mcp_server, "returned", "none",
                          IF tried THEN <<t.name>> ELSE <<>>,
                          IF tried THEN <<r.name>> ELSE <<>>, <<>>,
                          [kind |-> "none"], [kind |-> "none"]))

\* admin_tools.py 192-270
register_admin_resource ==
    \E model \in Models, has_admin_class \in BOOLEAN, prefix \in PrefixArgs,
       ctorRaises \in BOOLEAN :
        LET g == get_mcp_server(NoName, ctorRaises)
            uri == (IF prefix = NoName THEN <<>> ELSE <<prefix>>)
                   \o <<"admin://", get_app_label(model), "/", get_model_name(model)>>
            r == Reg(uri, Fn("get_admin_configuration", model,
                             IF has_admin_class THEN "admin_class" ELSE "none"))
            tried == g.out = "returned"
        IN /\ RunsCtor(ctorRaises)
           /\ mcp_server' = g.srv
           /\ nextId' = g.nid
           /\ resources' = IF tried THEN AddResource(resources, g.srv, r, FALSE)
                           ELSE resources
           /\ UNCHANGED tools
           /\ Record(Call("register_admin_resource", mcp_server, "returned", "none",
                          <<>>, IF tried THEN <<r.name>> ELSE <<>>, <<>>,
                          [model |-> model, prefix |-> prefix], [kind |-> "none"]))

\* -------------------------------------------------------------- drf_tools
\* the classes callers pass as viewset_class: something that is not a class,
\* a class that is no ViewSet, and ViewSets with or without a queryset model
\* and an action_map attribute (method, action pairs in the dict's order)
ViewSetClass(is_class, is_viewset, model, has_action_map, action_map) ==
    [is_class |-> is_class, is_viewset |-> is_viewset, model |-> model,
     has_action_map |-> has_action_map, action_map |-> action_map]
ViewSetArgs ==
    {ViewSetClass(FALSE, FALSE, "none", FALSE, <<>>),
     ViewSetClass(TRUE, FALSE, "none", FALSE, <<>>),
     ViewSetClass(TRUE, TRUE, "book", FALSE, <<>>),
     ViewSetClass(TRUE, TRUE, "author", TRUE, <<<<"get", "retrieve">>>>),
     ViewSetClass(TRUE, TRUE, "none", TRUE,
                  <<<<"get", "list">>, <<"HEAD", "list">>, <<"options", "metadata">>,
                    <<"post", "create">>>>)}

\* drf_tools.py 72-76: the action map used for a class that has none
DefaultActionMap ==
    <<<<"get", "retrieve">>, <<"post", "create">>, <<"put", "update">>,
      <<"patch", "partial_update">>, <<"delete", "destroy">>>>
\* str.lower on the method names in use
Lower_Identity(method) == method
Lower(method) == IF method = "HEAD" THEN "head" ELSE method
\* str.replace(" ", "_")
Replace(str, old, new) == [i \in 1..Len(str) |-> IF str[i] = old THEN new ELSE str[i]]

\* drf_tools.py 63-92: the decorators applied for a ViewSet, in order
DrfRegs(viewset_class) ==
    LET model_name == IF viewset_class.model = "none" THEN <<"resource">>
                      ELSE get_verbose_name(viewset_class.model)
        actions == IF viewset_class.has_action_map THEN viewset_class.action_map
                   ELSE DefaultActionMap
        Used(pair) == Lower(pair[1]) \notin {"head", "options"}
        kept == SelectSeq(actions, Used)
    IN [i \in 1..Len(kept) |->
           Reg(<<"api", "_">> \o Replace(model_name, " ", "_") \o <<"_", kept[i][2]>>,
               Fn("drf_action_tool", viewset_class.model, kept[i][2]))]

\* drf_tools.py 34-133
register_drf_viewset ==
    \E viewset_class \in ViewSetArgs, ctorRaises \in BOOLEAN :
        LET skipped == ~drf_available \/ ~viewset_class.is_class
                       \/ ~viewset_class.is_viewset
            g == IF skipped
                 THEN [out |-> "skipped", val |-> NoneVal, srv |-> mcp_server,
                       nid |-> nextId]
                 ELSE get_mcp_server(NoName, ctorRaises)
            regs == IF g.out = "returned" THEN DrfRegs(viewset_class) ELSE <<>>
        IN /\ RunsCtor(ctorRaises)
           /\ skipped => ~ctorRaises
           /\ mcp_server' = g.srv
           /\ nextId' = g.nid
           /\ tools' = AddTools(tools, g.srv, regs)
           /\ UNCHANGED resources
           /\ Record(Call("register_drf_viewset", mcp_server, "returned", "none",
                          RegNames(regs), <<>>, <<>>,
                          [viewset_class |-> viewset_class], [kind |-> "none"]))

\* the uri_template arguments callers pass
UriTemplateArgs == {<<"books://", "{", "pk", "}">>}

\* drf_tools.py 136-200: FastMCP may reject the template because the handler
\* takes **kwargs, with a ValueError the function lets through
register_serializer_resource ==
    \E has_model \in BOOLEAN, uri_template \in UriTemplateArgs,
       lookup_field \in LookupArgs, ctorRaises \in BOOLEAN, accepted \in BOOLEAN :
        LET g == IF ~drf_available
                 THEN [out |-> "skipped", val |-> NoneVal, srv |-> mcp_server,
                       nid |-> nextId]
                 ELSE get_mcp_server(NoName, ctorRaises)
            r == Reg(uri_template,
                     Fn("get_serializer_resource", IF has_model THEN "book" ELSE "none",
                        lookup_field))
            tried == g.out = "returned"
        IN /\ RunsCtor(ctorRaises)
           /\ ~drf_available => ~ctorRaises /\ accepted
           /\ mcp_server' = g.srv
           /\ nextId' = g.nid
           /\ resources' = IF tried /\ accepted
                           THEN AddResource(resources, g.srv, r, TRUE)
                           ELSE resources
           /\ UNCHANGED tools
           /\ Record(Call("register_serializer_resource", mcp_server,
                          IF tried /\ ~accepted THEN "raised" ELSE "returned",
                          IF tried /\ ~accepted THEN "ValueError" ELSE "none",
                          <<>>, IF tried THEN <<r.name>> ELSE <<>>, <<>>,
                          [has_model |-> has_model, lookup_field |-> lookup_field],
                          [kind |-> "none"]))

\* --------------------------------------------------------------- handlers
\* what the host framework does when a handler looks up or executes: nothing
\* wrong, model.DoesNotExist, or any other exception
Faults == {"none", "DoesNotExist", "Exception"}

\* how a handler call ends: a value, an error payload, or an exception
NoResult == [kind |-> "none", type |-> "none", text |-> ""]
Value(type) ==
    [out |-> "returned", exc |-> "none", result |-> [kind |-> "value", type |-> type, text |-> ""]]
ErrorPayload(type, text) ==
    [out |-> "returned", exc |-> "none", result |-> [kind |-> "error", type |-> type, text |-> text]]
Propagates(fault) == [out |-> "raised", exc |-> fault, result |-> NoResult]

\* model_tools.py 91-102
get_model_instance(fault) ==
    CASE fault = "none" -> Value("dict")
      [] fault = "DoesNotExist" -> ErrorPayload("dict", "not found")
      [] OTHER -> Propagates(fault)
\* model_tools.py 121-130
list_model_instances(fault) ==
    IF fault = "none" THEN Value("list") ELSE Propagates(fault)
\* model_tools.py 149-168
search_model_instances(has_text_fields, fault) ==
    IF ~has_text_fields THEN Value("list")
    ELSE IF fault = "none" THEN Value("list") ELSE Propagates(fault)
\* model_tools.py 198-218
create_model_instance(fault) ==
    IF fault = "none" THEN Value("dict") ELSE Propagates(fault)
\* model_tools.py 249-286
get_model_resource(fault) ==
    CASE fault = "none" -> Value("str")
      [] fault = "DoesNotExist" -> ErrorPayload("str", "# Not Found")
      [] OTHER -> ErrorPayload("str", "# Error")
\* admin_tools.py 87-106
admin_action_tool_NoExcept(fault) ==
    IF fault = "none" THEN Value("str") ELSE Propagates(fault)
admin_action_tool(fault) ==
    IF fault = "none" THEN Value("str")
    ELSE ErrorPayload("str", "Error executing admin action")
\* admin_tools.py 129-159
admin_models(fault) ==
    IF fault = "none" THEN Value("list") ELSE Propagates(fault)
\* admin_tools.py 163-189
admin_models_resource(fault) ==
    IF admin_models(fault).out = "returned" THEN Value("str") ELSE Propagates(fault)
\* admin_tools.py 225-270
get_admin_configuration(fault) ==
    IF fault = "none" THEN Value("str") ELSE Propagates(fault)
\* drf_tools.py 93-133: stage is where the host raises its fault
drf_action_tool(stage, has_action, fault) ==
    IF fault # "none" /\ stage = "instantiate"
    THEN ErrorPayload("dict", "Failed to instantiate ViewSet")
    ELSE IF ~has_action THEN ErrorPayload("dict", "Action not found on ViewSet")
    ELSE IF fault # "none" THEN ErrorPayload("dict", "Error executing action")
    ELSE Value("any")
\* drf_tools.py 165-200
get_serializer_resource(model_class, has_lookup_value, fault) ==
    IF ~has_lookup_value THEN ErrorPayload("str", "Lookup field not provided")
    ELSE IF model_class = "none" THEN ErrorPayload("str", "No model class available")
    ELSE CASE fault = "none" -> Value("str")
           [] fault = "DoesNotExist" -> ErrorPayload("str", "# Not Found")
           [] OTHER -> ErrorPayload("str", "# Error")

\* a registered handler is called, by the server or by anyone holding it
Handle(e, input, r) ==
    /\ Record(Call(e.fn.kind, mcp_server, r.out, r.exc, <<>>, <<>>, <<>>, input, r.result))
    /\ UNCHANGED <<mcp_server, nextId, tools, resources>>
\* the registered handlers of one function
Registered(registry, kind) == {e \in registry : e.fn.kind = kind}
HandlerInput(e, stage, reached, fault) ==
    [fn |-> e.fn, stage |-> stage, reached |-> reached, fault |-> fault]

CallGetModelInstance ==
    \E e \in Registered(tools, "get_model_instance"), fault \in Faults :
        Handle(e, HandlerInput(e, "lookup", TRUE, fault), get_model_instance(fault))
CallListModelInstances ==
    \E e \in Registered(tools, "list_model_instances"), fault \in Faults :
        Handle(e, HandlerInput(e, "lookup", TRUE, fault), list_model_instances(fault))
CallSearchModelInstances ==
    \E e \in Registered(tools, "search_model_instances"), has_text_fields \in BOOLEAN,
       fault \in Faults :
        /\ ~has_text_fields => fault = "none"
        /\ Handle(e, HandlerInput(e, "lookup", has_text_fields, fault),
                  search_model_instances(has_text_fields, fault))
CallCreateModelInstance ==
    \E e \in Registered(tools, "create_model_instance"), fault \in Faults :
        Handle(e, HandlerInput(e, "execute", TRUE, fault), create_model_instance(fault))
CallGetModelResource ==
    \E e \in Registered(resources, "get_model_resource"), fault \in Faults :
        Handle(e, HandlerInput(e, "lookup", TRUE, fault), get_model_resource(fault))
CallAdminActionTool ==
    \E e \in Registered(tools, "admin_action_tool"), stage \in {"lookup", "execute"},
       fault \in Faults :
        /\ stage = "execute" => fault # "DoesNotExist"
        /\ Handle(e, HandlerInput(e, stage, TRUE, fault), admin_action_tool(fault))
CallAdminModels ==
    \E e \in Registered(tools, "admin_models"), fault \in Faults :
        Handle(e, HandlerInput(e, "lookup", TRUE, fault), admin_models(fault))
CallAdminModelsResource ==
    \E e \in Registered(resources, "admin_models_resource"), fault \in Faults :
        Handle(e, HandlerInput(e, "lookup", TRUE, fault), admin_models_resource(fault))
CallGetAdminConfiguration ==
    \E e \in Registered(resources, "get_admin_configuration"), fault \in Faults :
        Handle(e, HandlerInput(e, "lookup", TRUE, fault), get_admin_configuration(fault))
CallDrfActionTool ==
    \E e \in Registered(tools, "drf_action_tool"), stage \in {"instantiate", "execute"},
       has_action \in BOOLEAN, fault \in {"none", "Exception"} :
        /\ stage = "execute" /\ ~has_action => fault = "none"
        /\ stage = "instantiate" => fault # "none" /\ has_action
        /\ Handle(e, HandlerInput(e, stage, stage = "instantiate" \/ has_action, fault),
                  drf_action_tool(stage, has_action, fault))
CallGetSerializerResource ==
    \E e \in Registered(resources, "get_serializer_resource"),
       has_lookup_value \in BOOLEAN, fault \in Faults :
        /\ ~has_lookup_value \/ e.fn.model = "none" => fault = "none"
        /\ Handle(e, HandlerInput(e, "lookup", has_lookup_value /\ e.fn.model # "none",
                                  fault),
                  get_serializer_resource(e.fn.model, has_lookup_value, fault))

\* -------------------------------------------------------------------- api
\* api.py 264-271, 289-296, 314-321, 339-346, 363-370, 387-394: function f gets
\* the server, raises ValueError if it got none, and calls the server's method
\* of the same name, which returns or raises
Invoke(f) ==
    \E ctorRaises \in BOOLEAN, err \in CtorErrors, methodRaises \in BOOLEAN :
        LET g == get_mcp_server(NoName, ctorRaises)
            c == IF g.out = "raised" THEN [out |-> "raised", exc |-> err, called |-> <<>>]
                 ELSE IF g.val = NoneVal
                 THEN [out |-> "raised", exc |-> "ValueError", called |-> <<>>]
                 ELSE IF methodRaises
                 THEN [out |-> "raised", exc |-> "Exception", called |-> <<f>>]
                 ELSE [out |-> "returned", exc |-> "none", called |-> <<f>>]
        IN /\ RunsCtor(ctorRaises)
           /\ g.out = "raised" => ~methodRaises
           /\ g.out = "returned" => err = "ValueError"
           /\ mcp_server' = g.srv
           /\ nextId' = g.nid
           /\ UNCHANGED <<tools, resources>>
           /\ Record(Call(f, mcp_server, c.out, c.exc, <<>>, <<>>, c.called,
                          [kind |-> "none"], [kind |-> "none"]))

invoke_tool == Invoke("invoke_tool")
invoke_tool_async == Invoke("invoke_tool_async")
invoke_prompt == Invoke("invoke_prompt")
invoke_prompt_async == Invoke("invoke_prompt_async")
read_resource == Invoke("read_resource")
read_resource_async == Invoke("read_resource_async")

\* ------------------------------------------------------- mcp_message_view
\* request bodies: JSON text, text that is not JSON, bytes that are no text
Bodies == {"json", "malformed", "undecodable"}
\* what handle_message does: returns a dict, returns another value, raises
HandleOutcomes == {"dict", "list", "raises"}
ViewResult(status, text) == [kind |-> "response", status |-> status, text |-> text]

\* views.py 62-64: json.loads(request.body) under except json.JSONDecodeError
ParseBody(body) ==
    CASE body = "json" -> [out |-> "parsed", exc |-> "none"]
      [] body = "malformed" -> [out |-> "caught", exc |-> "JSONDecodeError"]
      [] body = "undecodable" -> [out |-> "raised", exc |-> "UnicodeDecodeError"]

\* views.py 41-72
mcp_message_view ==
    \E method \in {"POST", "GET"}, ctorRaises \in BOOLEAN, body \in Bodies,
       handle \in HandleOutcomes :
        LET allowed == method = "POST"
            g == IF allowed THEN get_mcp_server(NoName, ctorRaises)
                 ELSE [out |-> "skipped", val |-> NoneVal, srv |-> mcp_server,
                       nid |-> nextId]
            parsed == ParseBody(body)
            c == IF ~allowed
                 THEN [out |-> "returned", exc |-> "none", called |-> <<>>,
                       result |-> ViewResult(405, "")]
                 ELSE IF g.out = "raised"
                 THEN [out |-> "returned", exc |-> "none", called |-> <<>>,
                       result |-> ViewResult(500, "MCP server not initialized")]
                 ELSE IF parsed.out = "caught"
                 THEN [out |-> "returned", exc |-> "none", called |-> <<>>,
                       result |-> ViewResult(400, "Invalid JSON body")]
                 ELSE IF parsed.out = "raised"
                 THEN [out |-> "raised", exc |-> parsed.exc, called |-> <<>>,
                       result |-> [kind |-> "none"]]
                 ELSE IF handle = "raises"
                 THEN [out |-> "returned", exc |-> "none", called |-> <<"handle_message">>,
                       result |-> ViewResult(500, "str(e)")]
                 ELSE IF handle = "dict"
                 THEN [out |-> "returned", exc |-> "none", called |-> <<"handle_message">>,
                       result |-> ViewResult(200, "response")]
                 ELSE [out |-> "raised", exc |-> "TypeError",
                       called |-> <<"handle_message">>, result |-> [kind |-> "none"]]
        IN /\ RunsCtor(ctorRaises)
           /\ mcp_server' = g.srv
           /\ nextId' = g.nid
           /\ UNCHANGED <<tools, resources>>
           /\ Record(Call("mcp_message_view", mcp_server, c.out, c.exc, <<>>, <<>>,
                          c.called,
                          [method |-> method, get_raises |-> g.out = "raised",
                           body |-> body, handle |-> handle],
                          c.result))

\* ------------------------------------------------------ one caller at a time
\* server.py 19-75 called by the only thread
GetMcpServer ==
    \E n \in ArgNames, ctorRaises \in BOOLEAN, err \in CtorErrors :
        LET g == get_mcp_server(n, ctorRaises)
        IN /\ RunsCtor(ctorRaises)
           /\ g.out = "returned" => err = "ValueError"
           /\ mcp_server' = g.srv
           /\ nextId' = g.nid
           /\ UNCHANGED <<tools, resources>>
           /\ Record(Call("get_mcp_server", mcp_server, g.out,
                          IF g.out = "raised" THEN err ELSE "none", <<>>, <<>>, <<>>,
                          [name |-> n], [kind |-> "server", server |-> g.val]))

\* server.py 97-105 called by the only thread
ResetMcpServer ==
    /\ mcp_server' = NoneVal
    /\ UNCHANGED <<nextId, tools, resources>>
    /\ Record(Call("reset_mcp_server", mcp_server, "returned", "none", <<>>, <<>>, <<>>,
                   [kind |-> "none"], [kind |-> "none"]))

\* ---------------------------------------------------------- mcp_dashboard
\* views.py 75-133: the context the dashboard is rendered with. The exception
\* of get_mcp_server is suppressed (lines 90-92) and leaves None; a server is
\* truthy and is inspected through get_tools, get_resources and get_prompts
\* (inspection.py 19-52), which read the server's private registries and let
\* out what that raises. The server of this model has no version attribute, and
\* the functions of this specification register no prompt.
mcp_dashboard ==
    \E ctorRaises \in BOOLEAN, inspectRaises \in BOOLEAN :
        LET g == get_mcp_server(NoName, ctorRaises)
            server == IF g.out = "raised" THEN NoneVal ELSE g.val
            truthy == server # NoneVal
            raised == truthy /\ inspectRaises
            Held(registry) == {e.name : e \in {x \in registry : x.srv = server.id}}
        IN /\ RunsCtor(ctorRaises)
           /\ inspectRaises => truthy
           /\ mcp_server' = g.srv
           /\ nextId' = g.nid
           /\ UNCHANGED <<tools, resources>>
           /\ Record(Call("mcp_dashboard", mcp_server,
                          IF raised THEN "raised" ELSE "returned",
                          IF raised THEN "AttributeError" ELSE "none", <<>>, <<>>,
                          IF ~truthy THEN <<>>
                          ELSE IF inspectRaises THEN <<"get_tools">>
                          ELSE <<"get_tools", "get_resources", "get_prompts">>,
                          [get_raises |-> g.out = "raised"],
                          IF raised THEN [kind |-> "none"]
                          ELSE [kind |-> "render",
                                server |-> server,
                                server_version |-> IF truthy THEN "Unknown"
                                                   ELSE "Not initialized",
                                tools |-> IF truthy THEN Held(tools) ELSE {},
                                resources |-> IF truthy THEN Held(resources) ELSE {},
                                prompts |-> {}]))

\* a process with the server name set in its settings, with or without DRF
InitSeq ==
    /\ InitProcess
    /\ setting_name = "Settings Server"
    /\ pytest = FALSE
    /\ setting_prefix = NoPrefix
    /\ drf_available \in BOOLEAN

NextSeq ==
    \/ GetMcpServer
    \/ ResetMcpServer
    \/ register_model_tools
    \/ register_model_create_tool
    \/ register_model_resource
    \/ register_admin_tools
    \/ register_admin_site
    \/ register_admin_resource
    \/ register_drf_viewset
    \/ register_serializer_resource
    \/ CallGetModelInstance
    \/ CallListModelInstances
    \/ CallSearchModelInstances
    \/ CallCreateModelInstance
    \/ CallGetModelResource
    \/ CallAdminActionTool
    \/ CallAdminModels
    \/ CallAdminModelsResource
    \/ CallGetAdminConfiguration
    \/ CallDrfActionTool
    \/ CallGetSerializerResource
    \/ invoke_tool
    \/ invoke_tool_async
    \/ invoke_prompt
    \/ invoke_prompt_async
    \/ read_resource
    \/ read_resource_async
    \/ mcp_message_view
    \/ mcp_dashboard

SpecSeq == InitSeq /\ [][NextSeq]_vars

\* --------------------------------------------------------- api decorators
\* the name arguments callers pass to the decorators
NameArgs == {NoName, "custom"}
\* a function before it is decorated: its __name__, whether it is a coroutine
\* function, and the attributes set on it
Func(fn_name, is_async) ==
    [kind |-> "function", fn_name |-> fn_name, is_async |-> is_async, attrs |-> <<>>]
\* api_inspection.set_function_attribute: sets the attribute and returns the
\* function
set_function_attribute(func, attr, value) ==
    [func EXCEPT !.attrs = (attr :> value) @@ @]

\* api.py 86-98, 177-189, 224-236: the try block of a decorator. The server's
\* register method is called if get_mcp_server returns a server, and whatever
\* is raised is caught; what the method does to the server is the server's
Register_Uncaught(ctorRaises, registerRaises, method) ==
    LET g == get_mcp_server(NoName, ctorRaises)
    IN [srv |-> g.srv, nid |-> g.nid,
        out |-> IF g.out = "raised" \/ registerRaises THEN "raised" ELSE "returned",
        called |-> IF g.out = "raised" \/ g.val = NoneVal THEN <<>> ELSE <<method>>]
Register(ctorRaises, registerRaises, method) ==
    LET g == get_mcp_server(NoName, ctorRaises)
    IN [srv |-> g.srv, nid |-> g.nid, out |-> "returned",
        called |-> IF g.out = "raised" \/ g.val = NoneVal THEN <<>> ELSE <<method>>]

\* a decorator has run its try block with outcome r and returns func, or lets
\* out what the block let out
Decorated(op, r, input, func) ==
    /\ mcp_server' = r.srv
    /\ nextId' = r.nid
    /\ UNCHANGED <<tools, resources>>
    /\ Record(Call(op, mcp_server, r.out, IF r.out = "raised" THEN "Exception" ELSE "none",
                   <<>>, <<>>, r.called, input,
                   IF r.out = "raised" THEN [kind |-> "none"] ELSE func))
DecoratorInput(name, func, ctorRaises, registerRaises) ==
    [name |-> name, func |-> func, get_raises |-> ctorRaises,
     register_raises |-> registerRaises]

\* api.py 26-109
tool ==
    \E name \in NameArgs, is_async \in BOOLEAN, ctorRaises \in BOOLEAN,
       registerRaises \in BOOLEAN :
        LET func == Func("my_func", is_async)
            tool_name == IF name # NoName THEN name ELSE func.fn_name
            r == Register(ctorRaises, registerRaises,
                          IF is_async THEN "register_tool_async" ELSE "register_tool")
            f1 == set_function_attribute(func, "tool", TRUE)
            f2 == set_function_attribute(f1, "tool_name", tool_name)
            f3 == set_function_attribute(f2, "tool_description", "docstring")
            f4 == set_function_attribute(f3, "tool_parameters", "parameters")
            f5 == set_function_attribute(f4, "tool_is_async", is_async)
        IN /\ RunsCtor(ctorRaises)
           /\ ctorRaises => ~registerRaises
           /\ Decorated("tool", r, DecoratorInput(name, func, ctorRaises, registerRaises), f5)

\* api.py 112-200
prompt ==
    \E name \in NameArgs, is_async \in BOOLEAN, ctorRaises \in BOOLEAN,
       registerRaises \in BOOLEAN :
        LET func == Func("my_func", is_async)
            prompt_name == IF name # NoName THEN name ELSE func.fn_name
            r == Register(ctorRaises, registerRaises,
                          IF is_async THEN "register_prompt_async" ELSE "register_prompt")
            f1 == set_function_attribute(func, "prompt", TRUE)
            f2 == set_function_attribute(f1, "prompt_name", prompt_name)
            f3 == set_function_attribute(f2, "prompt_description", "docstring")
            f4 == set_function_attribute(f3, "prompt_arguments", "arguments")
            f5 == set_function_attribute(f4, "prompt_is_async", is_async)
        IN /\ RunsCtor(ctorRaises)
           /\ ctorRaises => ~registerRaises
           /\ Decorated("prompt", r, DecoratorInput(name, func, ctorRaises, registerRaises),
                        f5)

\* api.py 203-246
resource ==
    \E uri_template \in UriTemplateArgs, is_async \in BOOLEAN, ctorRaises \in BOOLEAN,
       registerRaises \in BOOLEAN :
        LET func == Func("my_func", is_async)
            r == Register(ctorRaises, registerRaises,
                          IF is_async THEN "register_resource_async"
                          ELSE "register_resource")
            f1 == set_function_attribute(func, "resource", TRUE)
            f2 == set_function_attribute(f1, "resource_uri_template", uri_template)
            f3 == set_function_attribute(f2, "resource_description", "docstring")
            f4 == set_function_attribute(f3, "resource_is_async", is_async)
        IN /\ RunsCtor(ctorRaises)
           /\ ctorRaises => ~registerRaises
           /\ Decorated("resource", r,
                        DecoratorInput(uri_template, func, ctorRaises, registerRaises), f4)

NextApi ==
    \/ tool
    \/ prompt
    \/ resource
    \/ GetMcpServer
    \/ ResetMcpServer

SpecApi == InitSeq /\ [][NextApi]_vars

\* ------------------------------------------------------------- inspection
MaxUriLen == 3
\* the characters URIs are made of
UriChars == {"/", "a", "{", "}"}
\* the URIs callers ask for
UriArgs == UNION {[1..k -> UriChars] : k \in 0..MaxUriLen}
\* the URI templates of the resources registered on the server
UriTemplates ==
    {<<>>, <<"a">>, <<"/">>, <<"{", "a">>, <<"{", "}">>, <<"{", "a", "}">>,
     <<"a", "/", "a">>, <<"a", "/", "{", "a", "}">>, <<"{", "a", "}", "/", "a">>,
     <<"a", "{", "a", "}">>}
\* the server's resources in iteration order, by their templates
Registries == {<<>>} \cup {<<t>> : t \in UriTemplates}
                     \cup {<<t1, t2>> : t1, t2 \in UriTemplates}

\* str.split("/"): the parts between the slashes, empty ones included
RECURSIVE Split(_, _)
Split(str, part) ==
    IF str = <<>> THEN <<part>>
    ELSE IF Head(str) = "/" THEN <<part>> \o Split(Tail(str), <<>>)
    ELSE Split(Tail(str), Append(part, Head(str)))

\* inspection.py 115: t_part.startswith("{") and t_part.endswith("}")
IsParameter_StartOnly(t_part) == t_part # <<>> /\ Head(t_part) = "{"
IsParameter(t_part) ==
    /\ t_part # <<>>
    /\ Head(t_part) = "{"
    /\ t_part[Len(t_part)] = "}"

\* inspection.py 112-119: the loop over zip(template_parts, uri_parts)
RECURSIVE PartsMatch(_, _)
PartsMatch(template_parts, uri_parts) ==
    IF template_parts = <<>> \/ uri_parts = <<>> THEN TRUE
    ELSE IF IsParameter(Head(template_parts))
    THEN PartsMatch(Tail(template_parts), Tail(uri_parts))
    ELSE IF Head(template_parts) # Head(uri_parts) THEN FALSE
    ELSE PartsMatch(Tail(template_parts), Tail(uri_parts))

\* inspection.py 103-124: the index of the resource returned from the i-th
\* on, 0 for None
RECURSIVE MatchFrom(_, _, _)
MatchFrom(registry, uri, i) ==
    IF i > Len(registry) THEN 0
    ELSE LET template_parts == Split(registry[i], <<>>)
             uri_parts == Split(uri, <<>>)
         IN IF Len(template_parts) # Len(uri_parts) THEN MatchFrom(registry, uri, i + 1)
            ELSE IF PartsMatch(template_parts, uri_parts) THEN i
            ELSE MatchFrom(registry, uri, i + 1)

\* inspection.py 90-124
match_resource_uri ==
    /\ ~matched.done
    /\ \E uri \in UriArgs :
          LET g == get_mcp_server(NoName, FALSE)
          IN /\ mcp_server' = g.srv
             /\ nextId' = g.nid
             /\ matched' = [matched EXCEPT !.done = TRUE, !.uri = uri,
                                           !.result = MatchFrom(matched.registry, uri, 1)]
    /\ UNCHANGED <<threadVars, envVars, asgiVars, apiVars>>

\* a server that has been constructed and has resources registered on it
InitUri ==
    /\ mcp_server = [id |-> 1, name |-> "Settings Server"]
    /\ lock = 0
    /\ nextId = 2
    /\ setting_name = "Settings Server"
    /\ pytest = FALSE
    /\ setting_prefix = NoPrefix
    /\ drf_available = TRUE
    /\ th = [t \in Threads |-> Idle]
    /\ calls = 0
    /\ ctorCalls = 0
    /\ resetCalled = FALSE
    /\ resetDone = FALSE
    /\ asgi_app = NoApp
    /\ request = NoRequest
    /\ tools = {}
    /\ resources = {}
    /\ last = NoCall
    /\ ops = 0
    /\ \E registry \in Registries : matched = [NoMatch EXCEPT !.registry = registry]

NextUri == match_resource_uri

SpecUri == InitUri /\ [][NextUri]_vars

\* ------------------------------------------------------------ the claims
\* thread t has finished a call of function f
Finished(t, f) == th[t].pc = "idle" /\ th[t].op = f
\* thread t's get_mcp_server call has returned a value
GotValue(t) == th[t].gout = "returned"

\* C1 as stated: while reset_mcp_server is not called, the FastMCP constructor
\* runs at most once and every get_mcp_server call returns the same instance.
C1_ConstructorRunsOnce ==
    ~resetCalled =>
        /\ ctorCalls <= 1
        /\ \A t \in Threads : GotValue(t) => th[t].ret = mcp_server /\ th[t].ret # NoneVal

\* C1 amended: while reset_mcp_server is not called, at most one constructor
\* call returns (one that raises leaves the reference unset and a later call
\* runs the constructor again), and every get_mcp_server call that returns
\* returns that one instance.
C1_OneInstance ==
    ~resetCalled =>
        /\ nextId <= 2
        /\ \A t \in Threads : GotValue(t) => th[t].ret = mcp_server /\ th[t].ret # NoneVal

\* two threads that both found the reference unset have returned, one of them
\* after a constructor call that raised had already been made
C1_Witness ==
    /\ ~resetCalled
    /\ ctorCalls >= 2
    /\ \E t, u \in Threads :
          /\ t # u
          /\ Finished(t, "get_mcp_server") /\ Finished(u, "get_mcp_server")
          /\ GotValue(t) /\ GotValue(u)
          /\ th[t].startSrv = NoneVal /\ th[u].startSrv = NoneVal
          /\ th[t].built /\ ~th[u].built
          /\ th[t].ret = th[u].ret

\* C2: a get_mcp_server call that returns, returns a server and never None,
\* whatever reset_mcp_server calls run beside it.
C2_NeverReturnsNone ==
    \A t \in Threads :
        th[t].op = "get_mcp_server" /\ GotValue(t) => th[t].ret # NoneVal

\* C6: when reset_mcp_server completes the reference is unset, and a
\* get_mcp_server call that begins after a completed reset with the reference
\* unset returns an instance made after it began, one no earlier call had.
C6_NextGetReturnsNew ==
    /\ \A t \in Threads : th[t].pc = "L106" => mcp_server = NoneVal
    /\ \A t \in Threads :
          (/\ th[t].op = "get_mcp_server" /\ GotValue(t)
           /\ th[t].afterReset /\ th[t].startSrv = NoneVal)
          => th[t].ret # NoneVal /\ th[t].ret.id >= th[t].startNext

\* C7: a get_mcp_server call that begins with the singleton constructed, and
\* during which no reset assigns the reference, returns that instance with the
\* name it was constructed with, whatever name the call passes, and does not
\* run the constructor.
C7_ExistingInstanceWins ==
    \A t \in Threads :
        (/\ th[t].op = "get_mcp_server" /\ th[t].pc = "idle"
         /\ th[t].startSrv # NoneVal /\ ~th[t].resetDuring)
        => /\ GotValue(t)
           /\ th[t].ret = th[t].startSrv
           /\ ~th[t].built

\* a call passing a name the existing instance was not constructed with has
\* returned the existing instance
C7_Witness ==
    \E t \in Threads :
        /\ Finished(t, "get_mcp_server") /\ GotValue(t)
        /\ th[t].startSrv # NoneVal /\ ~th[t].resetDuring
        /\ th[t].name # NoName
        /\ th[t].ret.name # th[t].name
        /\ th[t].ret = th[t].startSrv

\* C10: a GET of mcp_health_view always ends in a response: 200 "ok" with the
\* server's name when get_mcp_server returned a server and building the
\* response did not raise, and 500 "error" when it returned None, when it
\* raised, and when building the response raised.
C10_HealthAlwaysAnswers ==
    \A t \in Threads :
        (Finished(t, "mcp_health_view") /\ th[t].resp.status # 405)
        => /\ th[t].resp.kind = "response"
           /\ IF GotValue(t) /\ th[t].ret # NoneVal /\ ~th[t].viewRaised
              THEN th[t].resp = Response(200, "ok", th[t].ret.name)
              ELSE th[t].resp = Response(500, "error", NoName)

\* the view has answered 500 because get_mcp_server returned None
C10_Witness ==
    \E t \in Threads :
        /\ Finished(t, "mcp_health_view")
        /\ GotValue(t) /\ th[t].ret = NoneVal
        /\ th[t].resp = Response(500, "error", NoName)
\* C8: the application forwards each request exactly once, to exactly one of
\* the two applications, with the scope, receive and send it was given: to the
\* MCP SSE app if and only if the scope has a path whose first characters are
\* "/" followed by the DJANGO_MCP_URL_PREFIX setting ("mcp" when the setting
\* is absent), and to Django otherwise, a scope with no path included.
C8_RoutesOnce ==
    request.served =>
        LET prefix == IF setting_prefix.given THEN setting_prefix.value
                      ELSE <<"m", "c", "p">>
            isMcp == /\ request.has_path
                     /\ Len(request.path) >= Len(prefix) + 1
                     /\ request.path[1] = "/"
                     /\ \A i \in 1..Len(prefix) : request.path[i + 1] = prefix[i]
        IN /\ Len(request.forwards) = 1
           /\ request.forwards[1].scope =
                 [has_path |-> request.has_path, path |-> request.path]
           /\ request.forwards[1].receive = request.receive
           /\ request.forwards[1].send = request.send
           /\ request.forwards[1].app =
                 IF isMcp THEN "mcp_sse_app" ELSE "django_application"

\* a request whose path goes on after the prefix has gone to the MCP SSE app
C8_Witness ==
    /\ request.served
    /\ request.has_path
    /\ Len(request.path) > Len(McpPrefix) + 1
    /\ Len(request.forwards) = 1
    /\ request.forwards[1].app = "mcp_sse_app"
\* the registration functions, and the handler closures the library registers
RegistrationFns ==
    {"register_model_tools", "register_model_resource", "register_admin_tools",
     "register_admin_site", "register_admin_resource", "register_drf_viewset",
     "register_serializer_resource"}
CatchingHandlers ==
    {"get_model_resource", "admin_action_tool", "drf_action_tool",
     "get_serializer_resource"}
BareHandlers == {"list_model_instances", "search_model_instances", "create_model_instance"}
\* the last call was a library handler during which the host framework raised
HostRaised == /\ last.op \in CatchingHandlers \cup BareHandlers \cup {"get_model_instance"}
              /\ last.input.fault # "none"
\* the last call returned a str or dict error payload
ReturnedErrorPayload ==
    /\ last.out = "returned"
    /\ last.result.kind = "error"
    /\ last.result.type \in {"str", "dict"}

\* C3: a registration function called while the singleton is unset returns
\* without raising, registers no tool and no resource, and leaves the
\* singleton unset.
C3_RegistrationNoOp ==
    last.op \in RegistrationFns /\ last.pre = NoneVal =>
        /\ last.out = "returned"
        /\ last.reg = <<>>
        /\ last.res = <<>>
        /\ mcp_server = NoneVal

\* C4 as stated: whenever the host framework's lookup or execution raises
\* during a call of a library handler, the handler returns a str or dict error
\* payload and lets no exception out.
C4_EveryHandlerCatches == HostRaised => ReturnedErrorPayload

\* C4, amended: the model resource, admin action tool, DRF action tool and
\* serializer resource handlers return a str or dict error payload whatever
\* the host framework raises; the model get tool does so only for
\* DoesNotExist and lets any other exception out; the model list, search and
\* create tools let every exception out.
C4_HandlersThatCatch ==
    HostRaised =>
        IF \/ last.op \in CatchingHandlers
           \/ last.op = "get_model_instance" /\ last.input.fault = "DoesNotExist"
        THEN ReturnedErrorPayload
        ELSE last.out = "raised" /\ last.exc = last.input.fault

\* the admin action tool has answered a host exception with its error string
C4_Witness ==
    /\ last.op = "admin_action_tool"
    /\ last.input.fault = "Exception"
    /\ last.out = "returned"
    /\ last.result = [kind |-> "error", type |-> "str",
                      text |-> "Error executing admin action"]

\* C5: invoke_tool, invoke_prompt, read_resource and their async variants,
\* called while the server is not initialized, raise ValueError and call no
\* method of a server.
InvokeFns ==
    {"invoke_tool", "invoke_tool_async", "invoke_prompt", "invoke_prompt_async",
     "read_resource", "read_resource_async"}
C5_InvokeRaisesValueError ==
    last.op \in InvokeFns /\ last.pre = NoneVal =>
        /\ last.out = "raised"
        /\ last.exc = "ValueError"
        /\ last.called = <<>>

\* C9: a POST to mcp_message_view is answered by the first failing stage, 500
\* 'MCP server not initialized' if get_mcp_server raises, else 400 'Invalid
\* JSON body' if the body is not valid JSON, else 500 with the exception text
\* if handle_message raises, else the handler's response; handle_message is
\* called at most once, and not at all if an earlier stage failed or the
\* method is not POST.
C9_FirstFailingStage ==
    last.op = "mcp_message_view" =>
        LET i == last.input
            answered(status, text) ==
                /\ last.out = "returned"
                /\ last.result = [kind |-> "response", status |-> status, text |-> text]
        IN /\ Len(last.called) <= 1
           /\ i.method # "POST" => last.called = <<>>
           /\ i.method = "POST" =>
                IF i.get_raises
                THEN answered(500, "MCP server not initialized") /\ last.called = <<>>
                ELSE IF i.body # "json"
                THEN answered(400, "Invalid JSON body") /\ last.called = <<>>
                ELSE IF i.handle = "raises"
                THEN answered(500, "str(e)") /\ last.called = <<"handle_message">>
                ELSE answered(200, "response") /\ last.called = <<"handle_message">>
\* the number of "/"-separated segments of a string, and its k-th segment
SegmentCount(str) == Cardinality({i \in 1..Len(str) : str[i] = "/"}) + 1
Segment(str, k) ==
    LET SlashesBefore(i) == Cardinality({j \in 1..(i - 1) : str[j] = "/"})
        inside == {i \in 1..Len(str) : str[i] # "/" /\ SlashesBefore(i) = k - 1}
    IN [n \in 1..Cardinality(inside) |->
           str[CHOOSE i \in inside : Cardinality({j \in inside : j < i}) = n - 1]]
\* a template satisfied by a URI: as many segments, and each one a '{...}'
\* parameter or equal to the URI's
Satisfies(template, uri) ==
    /\ SegmentCount(template) = SegmentCount(uri)
    /\ \A k \in 1..SegmentCount(template) :
          LET t == Segment(template, k)
          IN \/ Len(t) >= 1 /\ t[1] = "{" /\ t[Len(t)] = "}"
             \/ t = Segment(uri, k)

\* C11: match_resource_uri(uri) returns the first resource in the registry's
\* order whose template has as many '/'-separated segments as uri, each of
\* them a '{...}' parameter or equal to uri's segment, and returns None if and
\* only if no registered resource is like that.
C11_FirstSatisfied ==
    matched.done =>
        LET good == {i \in 1..Len(matched.registry) :
                        Satisfies(matched.registry[i], matched.uri)}
        IN IF good = {} THEN matched.result = 0
           ELSE /\ matched.result \in good
                /\ \A i \in good : matched.result <= i

\* the second resource was returned through a parameter segment, the first
\* having as many segments as the URI but another literal
C11_Witness ==
    /\ matched.done
    /\ matched.result = 2
    /\ SegmentCount(matched.registry[1]) = SegmentCount(matched.uri)
    /\ matched.registry[2] = <<"a", "/", "{", "a", "}">>
    /\ matched.uri = <<"a", "/", "{">>
\* C12: the tool, prompt and resource decorators never raise because of the
\* server: whether get_mcp_server or the server's registration call returns
\* or raises, the decorator returns the function it was given, marked for
\* discovery with tool, tool_name, tool_description, tool_parameters and
\* tool_is_async, or the like attributes of a prompt or a resource.
C12_DecoratorsReturnMarked ==
    last.op \in {"tool", "prompt", "resource"} =>
        LET func == last.input.func
            named == IF last.input.name # NoName THEN last.input.name ELSE func.fn_name
        IN /\ last.out = "returned"
           /\ last.result.kind = "function"
           /\ [last.result EXCEPT !.attrs = <<>>] = func
           /\ last.op = "tool" =>
                last.result.attrs =
                    [tool |-> TRUE, tool_name |-> named, tool_description |-> "docstring",
                     tool_parameters |-> "parameters", tool_is_async |-> func.is_async]
           /\ last.op = "prompt" =>
                last.result.attrs =
                    [prompt |-> TRUE, prompt_name |-> named,
                     prompt_description |-> "docstring", prompt_arguments |-> "arguments",
                     prompt_is_async |-> func.is_async]
           /\ last.op = "resource" =>
                last.result.attrs =
                    [resource |-> TRUE, resource_uri_template |-> last.input.name,
                     resource_description |-> "docstring",
                     resource_is_async |-> func.is_async]

\* a tool decorator whose registration call raised has returned the function
C12_Witness ==
    /\ last.op = "tool"
    /\ last.input.register_raises
    /\ last.called = <<"register_tool">>
    /\ last.out = "returned"
    /\ last.result.attrs.tool_name = "my_func"
\* the four tools of a model with their place in the fixed order
ToolRank == [get |-> 1, list |-> 2, search |-> 3, create |-> 4]
\* the function registered for each of them
ToolFunction ==
    [get |-> "get_model_instance", list |-> "list_model_instances",
     search |-> "search_model_instances", create |-> "create_model_instance"]
\* the tools asked for: in include, or all four without one, and not in exclude
AskedFor(include, exclude) ==
    {t \in DOMAIN ToolRank : /\ include.given => t \in include.items
                             /\ exclude.given => t \notin exclude.items}
\* the last call was register_model_tools and it got the server
RegisteredModelTools == last.op = "register_model_tools" /\ mcp_server # NoneVal

\* C13: register_model_tools registers exactly the tools among get, list,
\* search and create that are in include (all four when include is None) and
\* not in exclude, each at most once and in the order get, list, search,
\* create; other names in include or exclude are ignored, and an empty
\* include registers nothing. (The call that does not get the server
\* registers nothing: C18.)
C13_RegistersAskedFor ==
    RegisteredModelTools =>
        LET asked == AskedFor(last.input.include, last.input.exclude)
            reg == last.reg
        IN /\ {reg[i] : i \in 1..Len(reg)} = {<<ToolFunction[t]>> : t \in asked}
           /\ Len(reg) = Cardinality(asked)
           /\ \A i, j \in 1..Len(reg) :
                 i < j => \E t, u \in asked : /\ reg[i] = <<ToolFunction[t]>>
                                              /\ reg[j] = <<ToolFunction[u]>>
                                              /\ ToolRank[t] < ToolRank[u]
           /\ \A i \in 1..Len(reg) :
                 \E e \in tools : e.srv = mcp_server.id /\ e.name = reg[i]
           /\ last.input.include = List({}) => reg = <<>>

\* include named list and a name outside the four, exclude named get: only
\* the list tool was registered
C13_Witness ==
    /\ RegisteredModelTools
    /\ last.input.include = List({"list", "delete"})
    /\ last.input.exclude = List({"get"})
    /\ last.reg = <<<<"list_model_instances">>>>
\* the last call registered tools for a model on the server it got, which
\* held tools of another model from an earlier call
RegisteredFor(f) ==
    /\ last.op = f
    /\ mcp_server # NoneVal
    /\ last.out = "returned"
    /\ \E e \in tools : /\ e.srv = mcp_server.id
                        /\ e.fn.model \in Models \ {last.input.model}
\* the tools the server holds for a model
HeldFor(model) == {e \in tools : e.srv = mcp_server.id /\ e.fn.model = model}

\* C14: generated tools do not collide by name: once register_model_tools has
\* run for two models, or admin action tools have been registered for two
\* models, the server holds a tool of its own for each model and each tool
\* registered, and none of the second model's tools is dropped.
C14_NoToolDropped ==
    /\ RegisteredFor("register_model_tools") =>
          \A i \in 1..Len(last.reg) :
              \E e \in HeldFor(last.input.model) : e.fn.kind = last.reg[i][1]
    /\ RegisteredFor("register_admin_tools") =>
          Cardinality({e \in HeldFor(last.input.model) : e.fn.kind = "admin_action_tool"})
              >= Len(last.reg)
\* C15: register_admin_tools registers one tool for each action of the admin
\* class that is not excluded, and no tool for an action whose name is listed
\* in exclude_actions.
C15_ExcludedByName ==
    /\ last.op = "register_admin_tools"
    /\ last.pre = NoneVal
    /\ mcp_server # NoneVal
    /\ last.out = "returned"
    =>  LET actions == last.input.actions
            excluded == {x.name : x \in last.input.exclude_actions.items}
            held == {e.fn.arg : e \in {x \in tools : /\ x.srv = mcp_server.id
                                                     /\ x.fn.kind = "admin_action_tool"}}
        IN /\ held \cap excluded = {}
           /\ Len(last.reg) =
                 Cardinality({i \in 1..Len(actions) : actions[i].name \notin excluded})
\* the model name of a ViewSet's tools, spaces already replaced
UnderscoredName(model) ==
    CASE model = "none" -> <<"resource">>
      [] model = "author" -> <<"guest", "_", "author">>
      [] model = "book" -> <<"book">>
\* the tool names expected for a ViewSet class, entry by entry of its action
\* map, the head and options entries left out whatever their case
ExpectedDrfNames(v) ==
    LET map == IF v.has_action_map THEN v.action_map
               ELSE <<<<"get", "retrieve">>, <<"post", "create">>, <<"put", "update">>,
                      <<"patch", "partial_update">>, <<"delete", "destroy">>>>
        kept == {i \in 1..Len(map) :
                    map[i][1] \notin {"head", "HEAD", "Head", "options", "OPTIONS", "Options"}}
        Nth(k) == CHOOSE i \in kept : Cardinality({j \in kept : j < i}) = k - 1
    IN [k \in 1..Cardinality(kept) |->
           <<"api", "_">> \o UnderscoredName(v.model) \o <<"_", map[Nth(k)][2]>>]

\* C16: register_drf_viewset registers nothing when DRF is unavailable or the
\* argument is not a ViewSet subclass; otherwise it registers exactly one tool
\* for each entry of the action map (the default get, post, put, patch, delete
\* map without one) whose method is not head or options in any case, under
\* the name api_<model name, spaces as underscores>_<action>. (The call that
\* does not get the server registers nothing: C18.)
C16_OneToolPerAction ==
    last.op = "register_drf_viewset" =>
        LET v == last.input.viewset_class
        IN IF ~drf_available \/ ~v.is_class \/ ~v.is_viewset
           THEN last.reg = <<>> /\ mcp_server = last.pre
           ELSE mcp_server # NoneVal =>
                   /\ last.reg = ExpectedDrfNames(v)
                   /\ \A i \in 1..Len(last.reg) :
                         \E e \in tools : /\ e.srv = mcp_server.id
                                          /\ e.name = last.reg[i]
                                          /\ e.fn.kind = "drf_action_tool"

\* a ViewSet with HEAD and options entries got tools for the other two only
C16_Witness ==
    /\ last.op = "register_drf_viewset"
    /\ Len(last.input.viewset_class.action_map) = 4
    /\ last.reg = <<<<"api", "_", "resource", "_", "list">>,
                    <<"api", "_", "resource", "_", "create">>>>
\* ------------------------------------------------- mcp_test tool subcommand
\* the tool names the command line gives, and the tools a process may hold
ToolNameArgs == {<<"ping">>, <<"pong">>, <<"nosuch">>}
RegisteredToolNames == {<<"ping">>, <<"pong">>}
\* where the parameters come from: neither option, --params with valid or
\* invalid JSON, --file naming a file with valid JSON, with invalid JSON, a
\* missing file, or a file the process may not read
ParamSources ==
    {"none", "params", "params_invalid", "file", "file_invalid", "file_missing",
     "file_unreadable"}
\* what the server's invoke_tool or invoke_tool_async does: it returns a str,
\* a dict json.dumps accepts, a dict it rejects, or it raises
InvokeOutcomes == {"str", "dict", "unserialisable", "raises"}

\* mcp_test.py 106-117: json.JSONDecodeError and FileNotFoundError become a
\* CommandError, any other error of open() leaves as it is
ReadParams(source) ==
    CASE source \in {"params_invalid", "file_invalid", "file_missing"} ->
             [out |-> "raised", exc |-> "CommandError"]
      [] source = "file_unreadable" -> [out |-> "raised", exc |-> "PermissionError"]
      [] OTHER -> [out |-> "returned", exc |-> "none"]

\* what a run of the command did: how it ended, the server methods it called
\* in order, and what it wrote to stdout and stderr
Ran(out, exc, called, stdout, stderr) ==
    [out |-> out, exc |-> exc, called |-> called, stdout |-> stdout, stderr |-> stderr]

\* mcp_test.py 101-147 on server `server` whose registry is `registry`
handle_tool_NoLookup(server, registry, tool_name, source, outcome) ==
    LET p == ReadParams(source)
        found == {e \in registry : e.name = tool_name}
        is_async == \E e \in found : e.fn.is_async
        method == IF is_async THEN "invoke_tool_async" ELSE "invoke_tool"
        begun == <<"Testing tool", "Parameters">>
    IN IF p.out = "raised" THEN Ran("raised", p.exc, <<>>, <<>>, <<>>)
       ELSE IF outcome = "raises"
       THEN Ran("returned", "none", <<method>>, begun, <<"Error invoking tool">>)
       ELSE IF outcome = "unserialisable"
       THEN Ran("returned", "none", <<method>>, begun \o <<"Result:">>,
                <<"Error invoking tool">>)
       ELSE Ran("returned", "none", <<method>>, begun \o <<"Result:", outcome>>, <<>>)
handle_tool(server, registry, tool_name, source, outcome) ==
    LET p == ReadParams(source)
        found == {e \in registry : e.name = tool_name}
        is_async == \E e \in found : e.fn.is_async
        method == IF is_async THEN "invoke_tool_async" ELSE "invoke_tool"
        begun == <<"Testing tool", "Parameters">>
    IN IF p.out = "raised" THEN Ran("raised", p.exc, <<>>, <<>>, <<>>)
       ELSE IF found = {}
       THEN Ran("returned", "none", <<>>, begun, <<"Tool not found">>)
       ELSE IF outcome = "raises"
       THEN Ran("returned", "none", <<method>>, begun, <<"Error invoking tool">>)
       ELSE IF outcome = "unserialisable"
       THEN Ran("returned", "none", <<method>>, begun \o <<"Result:">>,
                <<"Error invoking tool">>)
       ELSE Ran("returned", "none", <<method>>, begun \o <<"Result:", outcome>>, <<>>)

\* mcp_test.py 50-76 with component_type "tool": the command is run once in
\* its process
mcp_test_tool ==
    \E tool_name \in ToolNameArgs, source \in ParamSources, outcome \in InvokeOutcomes,
       ctorRaises \in BOOLEAN :
        LET g == get_mcp_server(NoName, ctorRaises)
            registry == {e \in tools : e.srv = g.val.id}
            r == IF g.out = "raised" \/ g.val = NoneVal
                 THEN Ran("returned", "none", <<>>, <<>>, <<"MCP server not initialized">>)
                 ELSE handle_tool(g.val, registry, tool_name, source, outcome)
        IN /\ ops = 0
           /\ RunsCtor(ctorRaises)
           /\ r.called = <<>> => outcome = "str"
           /\ mcp_server' = g.srv
           /\ nextId' = g.nid
           /\ UNCHANGED <<tools, resources>>
           /\ Record(Call("mcp_test_tool", mcp_server, r.out, r.exc, <<>>, <<>>, r.called,
                          [tool_name |-> tool_name, source |-> source,
                           invoke |-> outcome,
                           held |-> {e.name : e \in registry},
                           is_async |-> \E e \in registry :
                                            e.name = tool_name /\ e.fn.is_async,
                           reached |-> g.out = "returned" /\ g.val # NoneVal],
                          [kind |-> "command", stdout |-> r.stdout, stderr |-> r.stderr]))

\* the process the command runs in: the server is unset, or the applications'
\* start-up has constructed it and registered sync and async tools on it
InitTest ==
    /\ lock = 0
    /\ setting_name = "Settings Server"
    /\ pytest = FALSE
    /\ setting_prefix = NoPrefix
    /\ drf_available = TRUE
    /\ th = [t \in Threads |-> Idle]
    /\ calls = 0
    /\ ctorCalls = 0
    /\ resetCalled = FALSE
    /\ resetDone = FALSE
    /\ asgi_app = NoApp
    /\ request = NoRequest
    /\ resources = {}
    /\ last = NoCall
    /\ ops = 0
    /\ matched = NoMatch
    /\ \/ /\ mcp_server = NoneVal
          /\ nextId = 1
          /\ tools = {}
       \/ /\ mcp_server = [id |-> 1, name |-> "Settings Server"]
          /\ nextId = 2
          /\ \E kinds \in [RegisteredToolNames -> {"absent", "sync", "async"}] :
                tools = {[srv |-> 1, name |-> n, fn |-> Func(n[1], kinds[n] = "async")] :
                            n \in {m \in RegisteredToolNames : kinds[m] # "absent"}}

NextTest == mcp_test_tool

SpecTest == InitTest /\ [][NextTest]_vars

\* the lines a thread runs while it holds the lock
InLock == {"L48", "L49", "L68", "L74", "L105", "L106"}

\* C17: when the constructor raises inside get_mcp_server the exception
\* reaches the caller, the lock is released and the reference stays unset;
\* the lock is never left held by a thread outside the with block, and the
\* reference never holds an instance whose constructor has not returned, so a
\* later call can take the lock and run the constructor again.
C17_RaiseReleasesLock ==
    /\ [](lock # 0 => th[lock].pc \in InLock)
    /\ [](mcp_server # NoneVal => mcp_server.id < nextId)
    /\ [][\A t \in Threads :
             th[t].pc = "L68" /\ th'[t].gout = "raised" =>
                 /\ lock = t
                 /\ lock' = 0
                 /\ mcp_server' = NoneVal
                 /\ th'[t].pc = AfterGet(t)
                 /\ th'[t].ret = NoneVal]_vars

\* with no reset ever called, a get_mcp_server call has raised and the
\* reference is set: a later call has run the constructor again
C17_Witness ==
    /\ ~resetCalled
    /\ mcp_server # NoneVal
    /\ \E t \in Threads : th[t].op = "get_mcp_server" /\ th[t].gout = "raised"
\* the last call was a registration function whose get_mcp_server call raised:
\* it reached that call with the reference unset and left it unset
GetRaisedInRegistration ==
    /\ last.op \in RegistrationFns \cup {"register_model_create_tool"}
    /\ last.pre = NoneVal
    /\ mcp_server = NoneVal
    /\ last.op = "register_drf_viewset" =>
           /\ drf_available
           /\ last.input.viewset_class.is_class
           /\ last.input.viewset_class.is_viewset
    /\ last.op = "register_serializer_resource" => drf_available

\* C18: a registration function whose get_mcp_server call raises returns
\* normally, makes no registration call and leaves the tools and resources
\* of every server as they were.
C18_GetRaisedIsNoOp ==
    /\ [](GetRaisedInRegistration =>
              /\ last.out = "returned"
              /\ last.exc = "none"
              /\ last.reg = <<>>
              /\ last.res = <<>>)
    /\ [][GetRaisedInRegistration' /\ ops' # ops =>
              tools' = tools /\ resources' = resources]_vars

\* get_mcp_server raised in register_model_create_tool, called after another
\* call
C18_Witness ==
    /\ GetRaisedInRegistration
    /\ last.op = "register_model_create_tool"
    /\ ops > 1
\* C19: with every thread that can run eventually run and a constructor that
\* ends, every call of get_mcp_server and of reset_mcp_server returns, whatever
\* the other threads call; the lock is held only inside a with block, and it is
\* free when no call is running.
C19_EveryCallReturns ==
    /\ \A t \in Threads : (th[t].pc # "idle") ~> (th[t].pc = "idle")
    /\ []((\A t \in Threads : th[t].pc = "idle") => lock = 0)

\* a call waits for the lock while another thread holds it
C19_Witness ==
    \E t, u \in Threads :
        /\ t # u
        /\ th[t].pc \in {"L46", "L104"}
        /\ lock = u
        /\ th[u].pc = "L68"
\* C20: mcp_dashboard called while the server is not initialized returns a
\* page rendered with server None, server_version 'Not initialized' and empty
\* tools, resources and prompts, calls none of get_tools, get_resources and
\* get_prompts, and lets no exception of get_mcp_server out.
C20_UnsetRendersAsNone ==
    last.op = "mcp_dashboard" /\ last.pre = NoneVal =>
        /\ last.out = "returned"
        /\ last.called = <<>>
        /\ last.result.kind = "render"
        /\ last.result.server = NoneVal
        /\ last.result.server_version = "Not initialized"
        /\ last.result.tools = {}
        /\ last.result.resources = {}
        /\ last.result.prompts = {}
\* the last call was the tool subcommand, and it reached _handle_tool
RanHandleTool == last.op = "mcp_test_tool" /\ last.input.reached
\* the registry is looked at, "Tool '<name>' not found" is reported for a name
\* it does not hold, and a tool it holds is invoked once through the method
\* its async mark selects
LooksUpThenInvokesOnce ==
    /\ last.out = "returned"
    /\ IF last.input.tool_name \notin last.input.held
       THEN /\ last.called = <<>>
            /\ last.result.stderr = <<"Tool not found">>
       ELSE /\ last.called = <<IF last.input.is_async THEN "invoke_tool_async"
                               ELSE "invoke_tool">>
            /\ last.input.invoke = "raises" =>
                   last.result.stderr = <<"Error invoking tool">>

ParamsUnreadable ==
    last.input.source \in {"params_invalid", "file_invalid", "file_missing",
                           "file_unreadable"}

====
